---------------------------- MODULE Spec2Model ----------------------------
(***************************************************************************)
(* Ledger & invoicing system: the document store (customers, products,     *)
(* invoices, payments), the API handlers that write it, and the ledger     *)
(* aggregation of GET /api/ledger with its running balance and summary.    *)
(*                                                                         *)
(* Amounts are integers (minor units).  Dates are instants counted in      *)
(* ticks, TicksPerDay ticks to a calendar day of UTC; the server's local   *)
(* time is UTC plus tz ticks.  ObjectIds are naturals drawn from counters. *)
(***************************************************************************)
EXTENDS Integers, Sequences, FiniteSets, TLC

\* ------------------------------------------------------------------ bounds
MaxInvoices == 2
MaxPayments == 1
TicksPerDay == 2

\* ------------------------------------------------------- program constants
\* ObjectId.toString().slice(-4): the last four hex digits of the id
IdTailMod == 65536

None == "none"

ProductIds == {"p1", "p2", "p3"}

\* Areas are strings, modelled as sequences of characters.
SeedCustomers ==
  << [id |-> "c1", name |-> "YAQOOB", area |-> <<"P", "E">>],
     [id |-> "c2", name |-> "AHMED",  area |-> <<"K", "A">>] >>

SeedProducts == [p \in ProductIds |-> 3]

\* The users created by the seed script, one of each role
SeedUsers ==
  << [name |-> "Admin User", email |-> "admin@ledger.com",
      password |-> <<"bcrypt", "admin123">>, role |-> "admin"],
     [name |-> "Accountant User", email |-> "accountant@ledger.com",
      password |-> <<"bcrypt", "accountant123">>, role |-> "accountant"],
     [name |-> "Manager User", email |-> "manager@ledger.com",
      password |-> <<"bcrypt", "manager123">>, role |-> "manager"] >>

\* No navigation seen by the middleware yet
NoNav ==
  [path |-> <<>>, search |-> <<>>, role |-> "none",
   outcome |-> [kind |-> "none", to |-> "none", from |-> <<>>]]

\* No request in flight
NoCall == [phase |-> "idle"]

\* The users who may have an invoice page open
PageUsers == {"u1", "u2"}

\* No invoice page open
ClosedPage == [phase |-> "closed", id |-> 0, paidAmount |-> 0, dueAmount |-> 0, amount |-> 0]

VARIABLES customers, products, invoices, payments, nextInvoiceId, nextPaymentId, resp

\* The server's time zone, the user collection, the page navigation seen by
\* the middleware, the ledger request that is between its two fetches, and
\* the store states that request has lived through
VARIABLES tz, users, nav, ledgerCall, seen

\* The invoice page each user has open
VARIABLES pages

storeVars == <<customers, products, invoices, payments, nextInvoiceId, nextPaymentId>>

sideVars == <<tz, users, nav, ledgerCall, seen, pages>>

vars == <<customers, products, invoices, payments, nextInvoiceId, nextPaymentId, resp,
          tz, users, nav, ledgerCall, seen, pages>>

\* ----------------------------------------------------------- sequence help
RECURSIVE SumSeq(_)
SumSeq(s) == IF s = <<>> THEN 0 ELSE s[1] + SumSeq(Tail(s))

\* s.map(f)
MapSeq(s, f(_)) == [i \in 1..Len(s) |-> f(s[i])]

\* s.reduce((sum, x) => sum + f(x), 0)
ReduceSum(s, f(_)) == SumSeq(MapSeq(s, f))

RECURSIVE FlatSeq(_)
FlatSeq(ss) == IF ss = <<>> THEN <<>> ELSE ss[1] \o FlatSeq(Tail(ss))

\* ------------------------------------------------------------------ strings
ToLower(c) ==
  CASE c = "P" -> "p" [] c = "E" -> "e" [] c = "K" -> "k" [] c = "A" -> "a"
    [] c = "X" -> "x" [] OTHER -> c

LowerStr(s) == [i \in 1..Len(s) |-> ToLower(s[i])]

IsSubstring(pat, s) ==
  \E k \in 0..(Len(s) - Len(pat)) :
     \A i \in 1..Len(pat) : s[k + i] = pat[i]

\* { area: { $regex: area, $options: 'i' } } for a pattern of plain letters
RegexMatchI(pat, s) == IsSubstring(LowerStr(pat), LowerStr(s))

\* -------------------------------------------------------------------- dates
\* The calendar day (UTC) of an instant
DayOf(t) == t \div TicksPerDay

\* new Date('YYYY-MM-DD'): a date-only string is midnight UTC of that day
ParseDate(d) == d * TicksPerDay

\* The instant at which the server's local day holding the instant t begins
LocalMidnight(t) == ((t + tz) \div TicksPerDay) * TicksPerDay - tz

\* new Date(d); setHours(0, 0, 0, 0): the hours are set in local time
StartOfDay(d) == LocalMidnight(ParseDate(d))

\* new Date(d); setHours(23, 59, 59, 999)
EndOfDay(d) == LocalMidnight(ParseDate(d)) + (TicksPerDay - 1)

\* date.toISOString().split('T')[0].split('-').reverse().join('-').slice(0, 10)
FormatDDMMYYYY(t) == <<"DD-MM-YYYY", DayOf(t)>>

\* ------------------------------------------------------------------ sorting
\* Insert index i behind every index whose key is <= keys[i].
RECURSIVE InsertByKey(_, _, _)
InsertByKey(sorted, i, keys) ==
  IF sorted = <<>> THEN <<i>>
  ELSE IF keys[sorted[1]] <= keys[i]
       THEN <<sorted[1]>> \o InsertByKey(Tail(sorted), i, keys)
       ELSE <<i>> \o sorted

RECURSIVE SortPermFrom(_, _, _)
SortPermFrom(acc, i, keys) ==
  IF i > Len(keys) THEN acc
  ELSE SortPermFrom(InsertByKey(acc, i, keys), i + 1, keys)

\* The order in which an ascending stable sort visits the indices of keys.
SortPerm(keys) == SortPermFrom(<<>>, 1, keys)

\* Array.prototype.sort((a, b) => key(a) - key(b)): ascending and stable
StableSort(s, key(_)) ==
  LET perm == SortPerm(MapSeq(s, key))
  IN  [i \in 1..Len(s) |-> s[perm[i]]]

\* ------------------------------------------------------------- the store
\* Mongoose findById / populate: is there a document with this _id (else null)
HasId(coll, id) == \E i \in 1..Len(coll) : coll[i].id = id

\* Mongoose findById / populate: the document with this _id
DocById(coll, id) == coll[CHOOSE i \in 1..Len(coll) : coll[i].id = id]

\* Model.find(filter): the matching documents in collection order
Find(coll, match(_)) == SelectSeq(coll, match)

\* ------------------------------------------------------------- responses
ZeroSummary == [totalCredit |-> 0, totalPaid |-> 0, currentBalance |-> 0, totalEntries |-> 0]

\* A query parameter that is absent (or empty) is the empty sequence; a day
\* parameter that is present is <<day>>.
Absent == <<>>

NoQuery == [session |-> None, customerId |-> None, area |-> Absent,
            createdBy |-> None, fromDate |-> Absent, toDate |-> Absent]

\* NextResponse.json({ error }, { status }) of the ledger handler
ErrorResponse(status, error, q, calls) ==
  [handler |-> "ledger", status |-> status, error |-> error, q |-> q, calls |-> calls,
   invoices |-> <<>>, payments |-> <<>>, entries |-> <<>>, summary |-> ZeroSummary]

\* The response of another handler: only its status is kept
StatusResponse(handler, status) ==
  [ErrorResponse(status, None, NoQuery, <<>>) EXCEPT !.handler = handler]

\* ------------------------------------------------ POST /api/invoices
UnitPrice(p) == IF p = "p1" THEN 1 ELSE IF p = "p2" THEN 2 ELSE 100

\* updateItem: amount = quantity * rate, rate and name taken from the product
PageItem(p, qty) ==
  [productId |-> p, nameSnapshot |-> p, quantity |-> qty,
   rate |-> UnitPrice(p), amount |-> qty * UnitPrice(p)]

Max(a, b) == IF a >= b THEN a ELSE b

\* NewInvoicePage.handleSubmit: the request the form sends
PageRequest(session, c, items, paid, date) ==
  LET totalAmount == ReduceSum(items, LAMBDA it : it.amount)
  IN  [session |-> session, customerId |-> c, items |-> items,
       totalAmount |-> totalAmount, paidAmount |-> paid,
       dueAmount |-> Max(0, totalAmount - paid), invoiceDate |-> date]

\* The invoice creations tried: three from the form (unpaid, part paid by
\* another user, paid more than the total by another customer), one sent to
\* the API with totals that disagree with the items, one without items, one without a session.
InvoiceRequests ==
  { PageRequest("u1", "c1", <<PageItem("p2", 1)>>, 0, 1),
    PageRequest("u2", "c1", <<PageItem("p2", 1), PageItem("p1", 1)>>, 2, 3),
    PageRequest("u1", "c2", <<PageItem("p1", 1)>>, 2, 1),
    [session |-> "u1", customerId |-> "c1", items |-> <<PageItem("p1", 1)>>,
     totalAmount |-> 3, paidAmount |-> 1, dueAmount |-> 1, invoiceDate |-> 1],
    [session |-> "u1", customerId |-> "c1", items |-> <<>>,
     totalAmount |-> 0, paidAmount |-> 0, dueAmount |-> 0, invoiceDate |-> 1],
    PageRequest(None, "c1", <<PageItem("p1", 1)>>, 0, 1) }

\* invoiceItemSchema / invoiceSchema (zod)
ZodInvoiceOk(body) ==
  /\ Len(body.items) >= 1
  /\ \A i \in 1..Len(body.items) :
        /\ body.items[i].quantity >= 1
        /\ body.items[i].rate >= 0
        /\ body.items[i].amount >= 0
  /\ body.totalAmount >= 0
  /\ body.paidAmount >= 0
  /\ body.dueAmount >= 0

\* Strings of digits are sequences of characters
DigitChar(d) == <<"0", "1", "2", "3", "4", "5", "6", "7", "8", "9">>[d + 1]

\* Number.prototype.toString of a natural number
RECURSIVE ToDigits(_)
ToDigits(n) ==
  IF n < 10 THEN <<DigitChar(n)>> ELSE ToDigits(n \div 10) \o <<DigitChar(n % 10)>>

\* String.prototype.padStart(length, '0')
RECURSIVE PadStart(_, _)
PadStart(str, length) ==
  IF Len(str) >= length THEN str ELSE PadStart(<<"0">> \o str, length)

\* String.prototype.slice(-n)
SliceLast(str, n) ==
  IF Len(str) <= n THEN str ELSE SubSeq(str, Len(str) - n + 1, Len(str))

\* the number with its random part not padded
generateInvoiceNumberUnpadded(now, random) ==
  <<"1", "1", "0", "1", "0", "0">>
    \o SliceLast(ToDigits(now.year), 2)
    \o PadStart(ToDigits(now.month), 2)
    \o PadStart(ToDigits(now.day), 2)
    \o ToDigits(random)

\* `110100${year}${month}${day}${random}`: now is the server's local date
\* (getFullYear, getMonth() + 1, getDate), random is Math.floor(Math.random() * 10000)
generateInvoiceNumber(now, random) ==
  <<"1", "1", "0", "1", "0", "0">>
    \o SliceLast(ToDigits(now.year), 2)
    \o PadStart(ToDigits(now.month), 2)
    \o PadStart(ToDigits(now.day), 2)
    \o PadStart(ToDigits(random), 4)

\* invoiceNumber.slice(-4)
NumberTail(number) == SliceLast(number, 4)

\* the stock lowered by one for each item, whatever its quantity
RECURSIVE DecrementStockByOne(_, _)
DecrementStockByOne(stock, items) ==
  IF items = <<>> THEN stock
  ELSE DecrementStockByOne(
         IF items[1].productId \in DOMAIN stock
         THEN [stock EXCEPT ![items[1].productId] = @ - 1]
         ELSE stock,
         Tail(items))

\* for (const item of items) Product.findByIdAndUpdate(id, {$inc: {stockQuantity: -quantity}})
RECURSIVE DecrementStock(_, _)
DecrementStock(stock, items) ==
  IF items = <<>> THEN stock
  ELSE DecrementStock(
         IF items[1].productId \in DOMAIN stock
         THEN [stock EXCEPT ![items[1].productId] = @ - items[1].quantity]
         ELSE stock,
         Tail(items))

\* The day on the server's clock when invoices are created
ClockDays == { [year |-> 2025, month |-> 10, day |-> 9] }

\* Math.floor(Math.random() * 10000): the suffixes drawn
RandomSuffixes == {0, 1}

\* POST /api/invoices for the requests of reqs, made on the dates of clocks,
\* with the random suffixes of randoms
PostInvoiceAt(reqs, clocks, randoms) ==
  \E req \in reqs, now \in clocks, random \in randoms :
    /\ nextInvoiceId <= MaxInvoices
    /\ IF req.session = None
       THEN /\ resp' = StatusResponse("POST invoices", 401)
            /\ UNCHANGED <<products, invoices, nextInvoiceId>>
       ELSE IF ~ZodInvoiceOk(req)
       THEN /\ resp' = StatusResponse("POST invoices", 500)
            /\ UNCHANGED <<products, invoices, nextInvoiceId>>
       ELSE LET number == generateInvoiceNumber(now, random)
                doc == [id |-> nextInvoiceId,
                        customerId |-> req.customerId,
                        items |-> req.items,
                        totalAmount |-> req.totalAmount,
                        paidAmount |-> req.paidAmount,
                        dueAmount |-> req.dueAmount,
                        invoiceDate |-> req.invoiceDate,
                        invoiceNumber |-> number,
                        createdBy |-> req.session]
            IN  /\ products' = DecrementStock(products, req.items)
                /\ nextInvoiceId' = nextInvoiceId + 1
                /\ IF \E i \in 1..Len(invoices) : invoices[i].invoiceNumber = number
                   THEN \* unique index on invoiceNumber: save throws
                        /\ resp' = StatusResponse("POST invoices", 500)
                        /\ UNCHANGED invoices
                   ELSE /\ resp' = StatusResponse("POST invoices", 201)
                        /\ invoices' = Append(invoices, doc)
    /\ UNCHANGED <<customers, payments, nextPaymentId>>

\* the stock decrements and the save in one transaction: a save that fails
\* takes the decrements back
PostInvoiceOfAtomic(reqs) ==
  \E req \in reqs, now \in ClockDays, random \in RandomSuffixes :
    /\ nextInvoiceId <= MaxInvoices
    /\ IF req.session = None
       THEN /\ resp' = StatusResponse("POST invoices", 401)
            /\ UNCHANGED <<products, invoices, nextInvoiceId>>
       ELSE IF ~ZodInvoiceOk(req)
       THEN /\ resp' = StatusResponse("POST invoices", 500)
            /\ UNCHANGED <<products, invoices, nextInvoiceId>>
       ELSE LET number == generateInvoiceNumber(now, random)
                doc == [id |-> nextInvoiceId,
                        customerId |-> req.customerId,
                        items |-> req.items,
                        totalAmount |-> req.totalAmount,
                        paidAmount |-> req.paidAmount,
                        dueAmount |-> req.dueAmount,
                        invoiceDate |-> req.invoiceDate,
                        invoiceNumber |-> number,
                        createdBy |-> req.session]
            IN  /\ nextInvoiceId' = nextInvoiceId + 1
                /\ IF \E i \in 1..Len(invoices) : invoices[i].invoiceNumber = number
                   THEN /\ resp' = StatusResponse("POST invoices", 500)
                        /\ UNCHANGED <<products, invoices>>
                   ELSE /\ resp' = StatusResponse("POST invoices", 201)
                        /\ products' = DecrementStock(products, req.items)
                        /\ invoices' = Append(invoices, doc)
    /\ UNCHANGED <<customers, payments, nextPaymentId>>

\* POST /api/invoices for the requests of reqs
PostInvoiceOf(reqs) == PostInvoiceAt(reqs, ClockDays, RandomSuffixes)

PostInvoice == PostInvoiceOf(InvoiceRequests) /\ UNCHANGED sideVars

\* ------------------------------------------------ POST /api/payments
\* The payments tried: for every invoice id and one id of no invoice, an
\* amount of 0 (refused by the schema), 1 on one date and 2 on a later one;
\* with and without a session.
PaymentRequests ==
  { [session |-> "u1", invoiceId |-> i, amount |-> pay[1], paymentDate |-> pay[2]] :
      i \in 1..(MaxInvoices + 1), pay \in { <<0, 2>>, <<1, 2>>, <<2, 3>> } }
  \cup
  [session : {None}, invoiceId : {1}, amount : {1}, paymentDate : {2}]

\* the handler without its comparison of the amount with the due amount
PostPaymentUnguarded(reqs, limit) ==
  \E req \in reqs :
    /\ nextPaymentId <= limit
    /\ IF req.session = None
       THEN /\ resp' = StatusResponse("POST payments", 401)
            /\ UNCHANGED <<payments, nextPaymentId>>
       ELSE IF req.amount < 1                                  \* paymentSchema (zod)
       THEN /\ resp' = StatusResponse("POST payments", 500)
            /\ UNCHANGED <<payments, nextPaymentId>>
       ELSE IF ~HasId(invoices, req.invoiceId)
       THEN /\ resp' = StatusResponse("POST payments", 404)
            /\ UNCHANGED <<payments, nextPaymentId>>
       ELSE /\ resp' = StatusResponse("POST payments", 201)
            /\ payments' = Append(payments,
                 [id |-> nextPaymentId, invoiceId |-> req.invoiceId,
                  amount |-> req.amount, paymentDate |-> req.paymentDate,
                  createdBy |-> req.session])
            /\ nextPaymentId' = nextPaymentId + 1
    /\ UNCHANGED <<customers, products, invoices, nextInvoiceId>>

\* POST /api/payments for the requests of reqs, while fewer than limit
\* payments have been recorded
PostPaymentUpTo(reqs, limit) ==
  \E req \in reqs :
    /\ nextPaymentId <= limit
    /\ IF req.session = None
       THEN /\ resp' = StatusResponse("POST payments", 401)
            /\ UNCHANGED <<payments, nextPaymentId>>
       ELSE IF req.amount < 1                                  \* paymentSchema (zod)
       THEN /\ resp' = StatusResponse("POST payments", 500)
            /\ UNCHANGED <<payments, nextPaymentId>>
       ELSE IF ~HasId(invoices, req.invoiceId)
       THEN /\ resp' = StatusResponse("POST payments", 404)
            /\ UNCHANGED <<payments, nextPaymentId>>
       ELSE IF req.amount > DocById(invoices, req.invoiceId).dueAmount
       THEN /\ resp' = StatusResponse("POST payments", 400)
            /\ UNCHANGED <<payments, nextPaymentId>>
       ELSE /\ resp' = StatusResponse("POST payments", 201)
            /\ payments' = Append(payments,
                 [id |-> nextPaymentId, invoiceId |-> req.invoiceId,
                  amount |-> req.amount, paymentDate |-> req.paymentDate,
                  createdBy |-> req.session])
            /\ nextPaymentId' = nextPaymentId + 1
    /\ UNCHANGED <<customers, products, invoices, nextInvoiceId>>

\* POST /api/payments for the requests of reqs
PostPaymentOf(reqs) == PostPaymentUpTo(reqs, MaxPayments)

PostPayment == PostPaymentOf(PaymentRequests) /\ UNCHANGED sideVars

\* DELETE /api/invoices/[id]
DeleteInvoiceOf(ids) ==
  \E session \in {"u1", None}, id \in ids :
    /\ IF session = None
       THEN /\ resp' = StatusResponse("DELETE invoices", 401)
            /\ UNCHANGED invoices
       ELSE IF ~HasId(invoices, id)
       THEN /\ resp' = StatusResponse("DELETE invoices", 404)
            /\ UNCHANGED invoices
       ELSE /\ resp' = StatusResponse("DELETE invoices", 200)
            /\ invoices' = SelectSeq(invoices, LAMBDA inv : inv.id # id)
    /\ UNCHANGED <<customers, products, payments, nextInvoiceId, nextPaymentId>>

DeleteInvoice == DeleteInvoiceOf(1..(MaxInvoices + 1)) /\ UNCHANGED sideVars

\* ------------------------------------------------ PUT /api/invoices/[id]
\* invoiceUpdateSchema.parse(body) for a body of paidAmount and dueAmount
ZodInvoiceUpdateOk(body) == body.paidAmount >= 0 /\ body.dueAmount >= 0

\* PUT /api/invoices/[id] for the requests of reqs:
\* Invoice.findByIdAndUpdate(id, validatedData, { new: true, runValidators: true })
PutInvoiceOf(reqs) ==
  \E req \in reqs :
    /\ IF req.session = None
       THEN /\ resp' = StatusResponse("PUT invoices", 401)
            /\ UNCHANGED invoices
       ELSE IF ~ZodInvoiceUpdateOk(req)
       THEN /\ resp' = StatusResponse("PUT invoices", 500)
            /\ UNCHANGED invoices
       ELSE IF ~HasId(invoices, req.id)
       THEN /\ resp' = StatusResponse("PUT invoices", 404)
            /\ UNCHANGED invoices
       ELSE /\ resp' = StatusResponse("PUT invoices", 200)
            /\ invoices' = [i \in 1..Len(invoices) |->
                             IF invoices[i].id = req.id
                             THEN [invoices[i] EXCEPT !.paidAmount = req.paidAmount,
                                                      !.dueAmount = req.dueAmount]
                             ELSE invoices[i]]
    /\ UNCHANGED <<customers, products, payments, nextInvoiceId, nextPaymentId>>

\* ------------------------------------------------------ GET /api/ledger
\* the scan adding the credit instead of subtracting it
RECURSIVE RunningFromAdding(_, _)
RunningFromAdding(balance, entries) ==
  IF entries = <<>> THEN <<>>
  ELSE LET b == balance + (entries[1].debit + entries[1].credit)
       IN  <<b>> \o RunningFromAdding(b, Tail(entries))

\* calculateRunningBalance: balance += entry.debit - entry.credit, left to right
RECURSIVE RunningFrom(_, _)
RunningFrom(balance, entries) ==
  IF entries = <<>> THEN <<>>
  ELSE LET b == balance + (entries[1].debit - entries[1].credit)
       IN  <<b>> \o RunningFrom(b, Tail(entries))

calculateRunningBalance(entries) == RunningFrom(0, entries)

\* A JavaScript object reference: the ObjectId instance that the query `origin`
\* built for the document id `hex`.  Two references are the same object only
\* if they come from the same place.
ObjRef(origin, hex) == [origin |-> origin, hex |-> hex]

\* Array.prototype.includes (SameValueZero): for objects, reference identity
Includes(arr, x) == \E i \in 1..Len(arr) : arr[i] = x

InRange(t, fromDate, toDate) ==
  /\ (fromDate # Absent => t >= StartOfDay(fromDate[1]))
  /\ (toDate # Absent => t <= EndOfDay(toDate[1]))

\* sorting on the day shown instead of the instant
SortKeyDisplayDay(entry) == DayOf(entry.dateObj)

\* The sort key of a ledger entry: a.dateObj.getTime()
SortKey(entry) == entry.dateObj

\* one entry per invoice, debiting its totalAmount, instead of one per line item
ItemEntriesPerInvoice(invoice) ==
  [j \in 1..(IF invoice.items = <<>> THEN 0 ELSE 1) |->
     [vNo |-> invoice.invoiceNumber,
      date |-> FormatDDMMYYYY(invoice.invoiceDate),
      dateObj |-> invoice.invoiceDate,
      productName |-> invoice.items[j].nameSnapshot,
      qty |-> invoice.items[j].quantity,
      rateVt |-> invoice.items[j].rate,
      amount |-> invoice.totalAmount,
      debit |-> invoice.totalAmount,
      credit |-> 0,
      balance |-> 0,
      customer |-> invoice.customerId,
      createdBy |-> invoice.createdBy,
      src |-> <<"item", invoice.id, j>>]]

\* One entry per line item of one invoice (route.ts 124-142)
ItemEntries(invoice) ==
  [j \in 1..Len(invoice.items) |->
     [vNo |-> invoice.invoiceNumber,
      date |-> FormatDDMMYYYY(invoice.invoiceDate),
      dateObj |-> invoice.invoiceDate,
      productName |-> invoice.items[j].nameSnapshot,
      qty |-> invoice.items[j].quantity,
      rateVt |-> invoice.items[j].rate,
      amount |-> invoice.items[j].amount,
      debit |-> invoice.items[j].amount,
      credit |-> 0,
      balance |-> 0,
      customer |-> invoice.customerId,
      createdBy |-> invoice.createdBy,
      src |-> <<"item", invoice.id, j>>]]

\* The entry of one payment record (route.ts 147-163); allInvoices resolves
\* the populated invoiceId
PaymentEntry(payment, allInvoices) ==
  LET inv == DocById(allInvoices, payment.invoiceId)
  IN  [vNo |-> <<"PAY-", payment.id % IdTailMod>>,
       date |-> FormatDDMMYYYY(payment.paymentDate),
       dateObj |-> payment.paymentDate,
       productName |-> <<"Payment for Invoice #", inv.invoiceNumber>>,
       qty |-> 1,
       rateVt |-> payment.amount,
       amount |-> payment.amount,
       debit |-> 0,
       credit |-> payment.amount,
       balance |-> 0,
       customer |-> inv.customerId,
       createdBy |-> payment.createdBy,
       src |-> <<"payment", payment.id, 0>>]

\* the sum taken over all fetched payments, without the filter on the invoice
TotalPaidFromAllRecords(invoice, fetchedPayments) ==
  ReduceSum(fetchedPayments, LAMBDA p : p.amount)

\* payments.filter(p => p.invoiceId._id.toString() === invoice._id.toString())
\*         .reduce((sum, p) => sum + p.amount, 0)
TotalPaidFromRecords(invoice, fetchedPayments) ==
  ReduceSum(SelectSeq(fetchedPayments, LAMBDA p : p.invoiceId = invoice.id),
            LAMBDA p : p.amount)

\* the comparison with >= instead of >
NeedsSyntheticOrEqual(invoice, fetchedPayments) ==
  invoice.paidAmount >= TotalPaidFromRecords(invoice, fetchedPayments)

\* Does the invoice get a reconciliation entry (route.ts 171)
NeedsSynthetic(invoice, fetchedPayments) ==
  invoice.paidAmount > TotalPaidFromRecords(invoice, fetchedPayments)

\* the reconciliation entry crediting the whole paidAmount
SyntheticEntryWholePaid(invoice, fetchedPayments) ==
  [vNo |-> <<"PAY-", NumberTail(invoice.invoiceNumber)>>,
   date |-> FormatDDMMYYYY(invoice.invoiceDate),
   dateObj |-> invoice.invoiceDate,
   productName |-> <<"Payment for Invoice #", invoice.invoiceNumber>>,
   qty |-> 1,
   rateVt |-> invoice.paidAmount,
   amount |-> invoice.paidAmount,
   debit |-> 0,
   credit |-> invoice.paidAmount,
   balance |-> 0,
   customer |-> invoice.customerId,
   createdBy |-> invoice.createdBy,
   src |-> <<"synthetic", invoice.id, 0>>]

\* The reconciliation entry of one invoice (route.ts 173-190)
SyntheticEntry(invoice, fetchedPayments) ==
  LET paymentAmount == invoice.paidAmount - TotalPaidFromRecords(invoice, fetchedPayments)
  IN  [vNo |-> <<"PAY-", NumberTail(invoice.invoiceNumber)>>,
       date |-> FormatDDMMYYYY(invoice.invoiceDate),
       dateObj |-> invoice.invoiceDate,
       productName |-> <<"Payment for Invoice #", invoice.invoiceNumber>>,
       qty |-> 1,
       rateVt |-> paymentAmount,
       amount |-> paymentAmount,
       debit |-> 0,
       credit |-> paymentAmount,
       balance |-> 0,
       customer |-> invoice.customerId,
       createdBy |-> invoice.createdBy,
       src |-> <<"synthetic", invoice.id, 0>>]

\* the entries pushed onto what the previous request left in the array (an
\* array kept across requests, emptied only once it has outgrown a ledger)
BuildEntriesKept(fetchedInvoices, fetchedPayments, allInvoices) ==
  LET fresh == FlatSeq(MapSeq(fetchedInvoices, ItemEntries))
               \o MapSeq(fetchedPayments, LAMBDA p : PaymentEntry(p, allInvoices))
               \o MapSeq(SelectSeq(fetchedInvoices,
                                   LAMBDA inv : NeedsSynthetic(inv, fetchedPayments)),
                         LAMBDA inv : SyntheticEntry(inv, fetchedPayments))
  IN  IF resp.handler = "ledger" /\ Len(resp.entries) <= Len(fresh)
      THEN resp.entries \o fresh
      ELSE fresh

\* ledgerEntries after the three forEach loops, in insertion order
BuildEntries(fetchedInvoices, fetchedPayments, allInvoices) ==
  FlatSeq(MapSeq(fetchedInvoices, ItemEntries))
  \o MapSeq(fetchedPayments, LAMBDA p : PaymentEntry(p, allInvoices))
  \o MapSeq(SelectSeq(fetchedInvoices, LAMBDA inv : NeedsSynthetic(inv, fetchedPayments)),
            LAMBDA inv : SyntheticEntry(inv, fetchedPayments))

\* the sort with entries of one instant left in the reverse of their
\* insertion order
SortedEntriesTiesReversed(entries) ==
  StableSort([i \in 1..Len(entries) |-> entries[Len(entries) + 1 - i]], SortKey)

\* ledgerEntries.sort((a, b) => a.dateObj.getTime() - b.dateObj.getTime()):
\* Array.prototype.sort is stable
SortedEntries(entries) == StableSort(entries, SortKey)

\* entry.balance = balances[index]
AttachBalances(entries) ==
  LET balances == calculateRunningBalance(entries)
  IN  [i \in 1..Len(entries) |-> [entries[i] EXCEPT !.balance = balances[i]]]

\* the summary with totalPaid taken from the credit entries
SummaryFromEntries(fetchedInvoices, entries) ==
  LET totalCredit == ReduceSum(fetchedInvoices, LAMBDA inv : inv.totalAmount)
      totalPaid == ReduceSum(entries, LAMBDA e : e.credit)
  IN  [totalCredit |-> totalCredit, totalPaid |-> totalPaid,
       currentBalance |-> totalCredit - totalPaid,
       totalEntries |-> Len(entries)]

\* The summary of the response (route.ts 206-217)
Summary(fetchedInvoices, entries) ==
  LET totalCredit == ReduceSum(fetchedInvoices, LAMBDA inv : inv.totalAmount)
      totalPaid == ReduceSum(fetchedInvoices, LAMBDA inv : inv.paidAmount)
  IN  [totalCredit |-> totalCredit, totalPaid |-> totalPaid,
       currentBalance |-> totalCredit - totalPaid,
       totalEntries |-> Len(entries)]

\* the guard also asking for no createdBy: !customerId && !area && !createdBy
MissingFilterNoCreator(q) ==
  q.customerId = None /\ q.area = Absent /\ q.createdBy = None

\* if (!customerId && !area)
MissingFilter(q) == q.customerId = None /\ q.area = Absent

\* invoiceQuery: customerId, createdBy and the invoiceDate range
InvoiceMatches(q, inv) ==
  /\ (q.customerId # None => inv.customerId = q.customerId)
  /\ (q.createdBy # None => inv.createdBy = q.createdBy)
  /\ InRange(inv.invoiceDate, q.fromDate, q.toDate)

\* paymentQuery: invoiceId $in (only when customerIds is not empty), createdBy
\* and the paymentDate range
PaymentMatches(q, customerIds, invoiceIds, p) ==
  /\ (Len(customerIds) > 0 => p.invoiceId \in invoiceIds)
  /\ (q.createdBy # None => p.createdBy = q.createdBy)
  /\ InRange(p.paymentDate, q.fromDate, q.toDate)

\* Invoice.find(invoiceQuery).populate(...).sort({ invoiceDate: 1 }) on the
\* invoice collection invs
FoundInvoices(q, invs) ==
  StableSort(Find(invs, LAMBDA inv : InvoiceMatches(q, inv)),
             LAMBDA inv : inv.invoiceDate)

\* the rejection of the payment fetch is swallowed instead of reaching the catch
RejectsButPayments(failAt, call) == failAt = call /\ call # "Payment.find"

\* Does the awaited store call reject, which takes the handler to its catch
\* block; failAt names the call that the store fails, or is None
Rejects(failAt, call) == failAt = call

\* the session asked for only once a filter is there
NoSessionWithFilter(q) == q.session = None /\ ~MissingFilter(q)

\* if (!session), the first statement of the handler
NoSession(q) == q.session = None

\* The store calls made so far, the last of them marked when it is the one
\* that the store fails
CallLog(made, failAt) ==
  IF made # <<>> /\ made[Len(made)] = failAt THEN made \o <<"throws">> ELSE made

\* The response of GET /api/ledger for the query q, given what the store
\* holds when each fetch reaches it: found is the result of Invoice.find,
\* custs the customers at Customer.find, pays the payments at Payment.find
\* and popInvoices the invoices when the payments are populated
LedgerFrom(q, found, custs, pays, popInvoices, failAt) ==
  IF NoSession(q)
  THEN ErrorResponse(401, "Unauthorized", q, <<>>)
  ELSE IF Rejects(failAt, "connectDB")
  THEN ErrorResponse(500, "Failed to generate ledger", q, CallLog(<<"connectDB">>, failAt))
  ELSE IF MissingFilter(q)
  THEN ErrorResponse(400, "Either customerId or area must be provided", q, <<"connectDB">>)
  ELSE
    LET byArea == q.area # Absent /\ q.customerId = None
        matched == Find(custs, LAMBDA c : RegexMatchI(q.area, c.area))
        \* customerId ? [customerId] : [], replaced by the ids of the area's customers
        customerIds == IF byArea
                       THEN MapSeq(matched, LAMBDA c : ObjRef("Customer.find", c.id))
                       ELSE IF q.customerId # None THEN <<q.customerId>> ELSE <<>>
        \* a populated customerId of a customer that no longer exists is null
        nullCustomer == byArea /\ \E i \in 1..Len(found) :
                                     ~HasId(custs, found[i].customerId)
        \* invoices.filter(invoice => customerIds.includes(invoice.customerId._id))
        fetchedInvoices ==
          IF byArea
          THEN SelectSeq(found, LAMBDA inv :
                 Includes(customerIds, ObjRef("populate", inv.customerId)))
          ELSE found
        invoiceIds == {fetchedInvoices[i].id : i \in 1..Len(fetchedInvoices)}
        \* Payment.find(paymentQuery).populate(...).sort({ paymentDate: 1 })
        fetchedPayments ==
          StableSort(Find(pays, LAMBDA p : PaymentMatches(q, customerIds, invoiceIds, p)),
                     LAMBDA p : p.paymentDate)
        \* a populated invoiceId of an invoice that no longer exists is null
        nullInvoice == \E i \in 1..Len(fetchedPayments) :
                          ~HasId(popInvoices, fetchedPayments[i].invoiceId)
        upToInvoices == <<"connectDB", "Invoice.find">>
        upToCustomers == upToInvoices \o (IF byArea THEN <<"Customer.find">> ELSE <<>>)
        upToPayments == upToCustomers \o <<"Payment.find">>
        entries == AttachBalances(
                     SortedEntries(BuildEntries(fetchedInvoices, fetchedPayments, popInvoices)))
    IN  IF Rejects(failAt, "Invoice.find")
        THEN ErrorResponse(500, "Failed to generate ledger", q, CallLog(upToInvoices, failAt))
        ELSE IF byArea /\ Rejects(failAt, "Customer.find")
        THEN ErrorResponse(500, "Failed to generate ledger", q, CallLog(upToCustomers, failAt))
        ELSE IF nullCustomer
        THEN ErrorResponse(500, "Failed to generate ledger", q, upToCustomers)
        ELSE IF Rejects(failAt, "Payment.find")
        THEN ErrorResponse(500, "Failed to generate ledger", q, CallLog(upToPayments, failAt))
        ELSE IF nullInvoice
        THEN ErrorResponse(500, "Failed to generate ledger", q, upToPayments)
        ELSE [handler |-> "ledger", status |-> 200, error |-> None, q |-> q,
              calls |-> CallLog(upToPayments, failAt),
              invoices |-> fetchedInvoices, payments |-> fetchedPayments,
              entries |-> entries,
              summary |-> Summary(fetchedInvoices, entries)]

\* The response of GET /api/ledger for the query q on the current store,
\* when no store call fails
Ledger(q) ==
  LedgerFrom(q, FoundInvoices(q, invoices), customers, payments, invoices, None)

\* The date ranges asked for: none, from day 1 on, up to day 0
DateRanges == { <<Absent, Absent>>, << <<1>>, Absent >>, << Absent, <<0>> >> }

\* A query of a logged-in user
Query(customerId, area, createdBy, range) ==
  [session |-> "u1", customerId |-> customerId, area |-> area,
   createdBy |-> createdBy, fromDate |-> range[1], toDate |-> range[2]]

\* The ledger queries tried: customer c1 under every date range and for one
\* creator, customer c2, an area that matches a customer and one that matches
\* none, both filters, neither (with and without a creator), no session.
LedgerQueries ==
  { Query("c1", Absent, None, r) : r \in DateRanges }
  \cup
  { Query(c, Absent, u, <<Absent, Absent>>) : c \in {"c1", "c2", None}, u \in {"u2", None} }
  \cup
  { Query(None, a, None, r) : a \in {<<"p">>, <<"x">>}, r \in {<<Absent, Absent>>, << Absent, <<0>> >>} }
  \cup
  { Query("c1", <<"x">>, None, <<Absent, Absent>>) }
  \cup
  { [NoQuery EXCEPT !.customerId = c] : c \in {"c1", None} }

\* GET /api/ledger
LedgerGETOf(queries) ==
  \E q \in queries :
    /\ resp' = Ledger(q)
    /\ UNCHANGED <<customers, products, invoices, payments, nextInvoiceId, nextPaymentId>>

LedgerGET == LedgerGETOf(LedgerQueries) /\ UNCHANGED sideVars

\* --------------------------------------------------------- specification
InitStore ==
  /\ customers = SeedCustomers
  /\ products = SeedProducts
  /\ invoices = <<>>
  /\ payments = <<>>
  /\ nextInvoiceId = 1
  /\ nextPaymentId = 1
  /\ resp = StatusResponse("none", 0)

\* Nothing is in flight: no ledger request between its fetches, no
\* navigation, the seeded users
InitSide ==
  /\ users = SeedUsers
  /\ nav = NoNav
  /\ ledgerCall = NoCall
  /\ seen = {}
  /\ pages = [u \in PageUsers |-> ClosedPage]

\* The server runs in UTC
Init == InitStore /\ InitSide /\ tz = 0

Next ==
  \/ PostInvoice
  \/ PostPayment
  \/ DeleteInvoice
  \/ LedgerGET

Spec == Init /\ [][Next]_vars

\* ------------------------------------------- the end-to-end scenario
\* 2025-10-01 and 2025-10-05 as days, and their instants (midnight)
Oct1 == 1 * TicksPerDay
Oct5 == 5 * TicksPerDay

\* Inv-1 (10 x 100, paid 1000), Inv-2 (5 x 100, paid 200) and an invoice
\* 1000/400/600, all of customer c1
ScenarioInvoiceRequests ==
  { PageRequest("u1", "c1", <<PageItem("p3", 10)>>, 1000, Oct1),
    PageRequest("u1", "c1", <<PageItem("p3", 5)>>, 200, Oct5),
    PageRequest("u1", "c1", <<PageItem("p3", 10)>>, 400, Oct1) }

ScenarioPaymentRequests ==
  [session : {"u1"}, invoiceId : 1..MaxInvoices, amount : {200, 600}, paymentDate : {Oct5}]

ScenarioQueries ==
  { [NoQuery EXCEPT !.session = "u1", !.customerId = c, !.toDate = t] :
      c \in {"c1", "c2"}, t \in {Absent, <<1>>} }

PostInvoiceScenario == PostInvoiceOf(ScenarioInvoiceRequests) /\ UNCHANGED sideVars

PostPaymentScenario == PostPaymentOf(ScenarioPaymentRequests) /\ UNCHANGED sideVars

LedgerGETScenario == LedgerGETOf(ScenarioQueries) /\ UNCHANGED sideVars

NextScenario ==
  \/ PostInvoiceScenario
  \/ PostPaymentScenario
  \/ LedgerGETScenario

SpecScenario == Init /\ [][NextScenario]_vars

\* ------------------------------------------- servers in other time zones
\* The offsets of the server's local time from UTC, in ticks
ZoneOffsets == {-1, 0, 1}

\* Two invoices of customer c1, dated late on day 0 and late on day 1
DatesInvoiceRequests ==
  { PageRequest("u1", "c1", <<PageItem("p2", 1)>>, 0, 1),
    PageRequest("u2", "c1", <<PageItem("p2", 1), PageItem("p1", 1)>>, 2, 3) }

\* The ledger of customer c1 for day 1, from day 1 on, up to day 0, for all days
DatesQueries ==
  { Query("c1", Absent, None, r) :
      r \in { << <<1>>, <<1>> >>, << <<1>>, Absent >>, << Absent, <<0>> >>, <<Absent, Absent>> } }

PostInvoiceDates == PostInvoiceOf(DatesInvoiceRequests) /\ UNCHANGED sideVars

PostPaymentDates == PostPaymentOf(PaymentRequests) /\ UNCHANGED sideVars

LedgerGETDates == LedgerGETOf(DatesQueries) /\ UNCHANGED sideVars

InitDates == InitStore /\ InitSide /\ tz \in ZoneOffsets

NextDates ==
  \/ PostInvoiceDates
  \/ PostPaymentDates
  \/ LedgerGETDates

SpecDates == InitDates /\ [][NextDates]_vars

\* --------------------------------------------------- a store that fails
\* The awaited calls of the ledger handler that the store can fail
StoreCalls == {"connectDB", "Invoice.find", "Customer.find", "Payment.find"}

\* The ledger of a customer, of an area with and without customers, a query
\* with no filter, one with no session and one with neither
FailureQueries ==
  { Query("c1", Absent, None, <<Absent, Absent>>),
    Query(None, <<"p">>, None, <<Absent, Absent>>),
    Query(None, <<"x">>, None, <<Absent, Absent>>),
    Query(None, Absent, None, <<Absent, Absent>>),
    [NoQuery EXCEPT !.customerId = "c1"],
    NoQuery }

PostInvoiceFailure == PostInvoiceOf(DatesInvoiceRequests) /\ UNCHANGED sideVars

PostPaymentFailure == PostPaymentOf(PaymentRequests) /\ UNCHANGED sideVars

\* GET /api/ledger while the store fails one of the calls, or none
LedgerGETFailing ==
  \E q \in FailureQueries, failAt \in StoreCalls \cup {None} :
    /\ resp' = LedgerFrom(q, FoundInvoices(q, invoices), customers, payments, invoices, failAt)
    /\ UNCHANGED storeVars
    /\ UNCHANGED sideVars

NextFailure ==
  \/ PostInvoiceFailure
  \/ PostPaymentFailure
  \/ LedgerGETFailing

SpecFailure == Init /\ [][NextFailure]_vars

\* --------------------------------- a ledger request among other requests
\* What handleRecordPayment sends after its payment of 1 for the first
\* invoice, loaded unpaid with 2 due; an update of no invoice; no session
ConcurrentUpdates ==
  { [session |-> "u1", id |-> i, paidAmount |-> 1, dueAmount |-> 1] : i \in {1, MaxInvoices + 1} }
  \cup
  { [session |-> None, id |-> 1, paidAmount |-> 1, dueAmount |-> 1] }

ConcurrentQueries == { Query("c1", Absent, None, <<Absent, Absent>>) }

\* The invoices and payments of the store
Snapshot == <<invoices, payments>>

\* The store states that the ledger request in flight lives through
Observe ==
  seen' = IF ledgerCall.phase = "fetched" THEN seen \cup {Snapshot'} ELSE seen

PostInvoiceConcurrent ==
  /\ PostInvoiceOf(DatesInvoiceRequests)
  /\ Observe
  /\ UNCHANGED <<tz, users, nav, ledgerCall, pages>>

PostPaymentConcurrent ==
  /\ PostPaymentOf(PaymentRequests)
  /\ Observe
  /\ UNCHANGED <<tz, users, nav, ledgerCall, pages>>

PutInvoiceConcurrent ==
  /\ PutInvoiceOf(ConcurrentUpdates)
  /\ Observe
  /\ UNCHANGED <<tz, users, nav, ledgerCall, pages>>

\* GET /api/ledger up to the end of its invoice fetch (route.ts 8-59)
LedgerFetchInvoices ==
  \E q \in ConcurrentQueries :
    /\ ledgerCall.phase = "idle"
    /\ ledgerCall' = [phase |-> "fetched", q |-> q, found |-> FoundInvoices(q, invoices)]
    /\ seen' = {Snapshot}
    /\ UNCHANGED storeVars
    /\ UNCHANGED <<resp, tz, users, nav, pages>>

\* GET /api/ledger from its payment fetch to its response (route.ts 61-226)
LedgerFetchPayments ==
  /\ ledgerCall.phase = "fetched"
  /\ resp' = LedgerFrom(ledgerCall.q, ledgerCall.found, customers, payments, invoices, None)
  /\ ledgerCall' = NoCall
  /\ seen' = {}
  /\ UNCHANGED storeVars
  /\ UNCHANGED <<tz, users, nav, pages>>

NextConcurrent ==
  \/ PostInvoiceConcurrent
  \/ PostPaymentConcurrent
  \/ PutInvoiceConcurrent
  \/ LedgerFetchInvoices
  \/ LedgerFetchPayments

SpecConcurrent == Init /\ [][NextConcurrent]_vars

\* ------------------------------------------------------ stock keeping
\* A well-formed product id that names no product
UnknownProduct == "p9"

\* Invoices sent to the API: one naming a product in two items, one naming a
\* product that does not exist besides one that does, one of two products,
\* one without a session
StockInvoiceRequests ==
  { PageRequest("u1", "c1", <<PageItem("p1", 1), PageItem("p1", 2)>>, 0, 1),
    PageRequest("u1", "c1",
                <<PageItem("p2", 1),
                  [productId |-> UnknownProduct, nameSnapshot |-> UnknownProduct,
                   quantity |-> 1, rate |-> 1, amount |-> 1]>>, 0, 1),
    PageRequest("u1", "c2", <<PageItem("p2", 2), PageItem("p3", 1)>>, 1, 3),
    PageRequest(None, "c1", <<PageItem("p1", 1)>>, 0, 1) }

StockQueries == { Query(c, Absent, None, <<Absent, Absent>>) : c \in {"c1", "c2"} }

PostInvoiceStock == PostInvoiceOf(StockInvoiceRequests) /\ UNCHANGED sideVars

LedgerGETStock == LedgerGETOf(StockQueries) /\ UNCHANGED sideVars

NextStock ==
  \/ PostInvoiceStock
  \/ LedgerGETStock

SpecStock == Init /\ [][NextStock]_vars

\* ------------------------------------------------------ /api/users
\* getServerSession: no session, or the role of the session's user
SessionRoles == {None, "admin", "accountant", "manager"}

\* Addresses: one already taken by a seeded user, two free ones, and one
\* string that is no address
WellFormedEmails == {"admin@ledger.com", "sarah@ledger.com", "david@ledger.com"}

\* userSchema (zod): name min 1, email, password min 6, role enum
ZodUserOk(body) ==
  /\ Len(body.name) >= 1
  /\ body.email \in WellFormedEmails
  /\ Len(body.password) >= 6
  /\ body.role \in {"admin", "accountant", "manager"}

\* userSchema (Mongoose): the role enum of the model, checked by save()
MongooseUserOk(doc) == doc.role \in {"admin", "accountant"}

\* bcrypt.hash(password, 12)
Hash(password) == <<"bcrypt", password>>

\* const { password, ...userWithoutPassword } / .select('-password')
WithoutPassword(doc) == [name |-> doc.name, email |-> doc.email, role |-> doc.role]

\* The answer of a users handler: the session it was asked with, the users
\* in its body and the store calls it made
UsersResponse(handler, status, session, body, calls) ==
  [handler |-> handler, status |-> status, session |-> session,
   users |-> body, calls |-> calls]

\* The guard with the role test left out
UnauthorizedWithoutSession(session) == session = None

\* !session || session.user.role !== 'admin'
Unauthorized(session) == session = None \/ session # "admin"

\* The creations tried: every session, a free or taken or malformed address,
\* each role, a name that may be empty and a password that may be too short
UserRequests ==
  { [session |-> s, name |-> n, email |-> e, password |-> pw, role |-> r] :
      s \in SessionRoles,
      n \in {<<"S">>, <<>>},
      e \in WellFormedEmails \cup {"sarah"},
      pw \in {<<"s", "e", "c", "r", "e", "t">>, <<"s">>},
      r \in {"admin", "accountant", "manager"} }

\* POST /api/users
PostUser ==
  /\ \E req \in UserRequests :
       LET handler == "POST users"
           doc     == [name |-> req.name, email |-> req.email,
                       password |-> Hash(req.password), role |-> req.role]
           taken   == \E i \in 1..Len(users) : users[i].email = req.email
       IN  IF Unauthorized(req.session)
           THEN /\ resp' = UsersResponse(handler, 401, req.session, <<>>, <<>>)
                /\ users' = users
           ELSE IF ~ZodUserOk(req)
           THEN /\ resp' = UsersResponse(handler, 500, req.session, <<>>, <<>>)
                /\ users' = users
           ELSE IF taken
           THEN /\ resp' = UsersResponse(handler, 400, req.session, <<>>,
                                         <<"connectDB", "User.findOne">>)
                /\ users' = users
           ELSE IF ~MongooseUserOk(doc)
           THEN /\ resp' = UsersResponse(handler, 400, req.session, <<>>,
                                         <<"connectDB", "User.findOne", "save">>)
                /\ users' = users
           ELSE /\ resp' = UsersResponse(handler, 201, req.session,
                                         <<WithoutPassword(doc)>>,
                                         <<"connectDB", "User.findOne", "save">>)
                /\ users' = Append(users, doc)
  /\ UNCHANGED <<storeVars, tz, nav, ledgerCall, seen, pages>>

\* .sort({ createdAt: -1 }): the newest user first
NewestFirst(docs) == [i \in 1..Len(docs) |-> docs[Len(docs) + 1 - i]]

\* .skip((page - 1) * limit).limit(limit)
PageOf(docs, page, limit) ==
  LET from == (page - 1) * limit + 1
      to   == IF page * limit <= Len(docs) THEN page * limit ELSE Len(docs)
  IN  IF from > Len(docs) THEN <<>> ELSE SubSeq(docs, from, to)

\* The pages asked for: the defaults (page 1 of 10) and pages of two users
UserListQueries ==
  { [session |-> s, page |-> pl[1], limit |-> pl[2]] :
      s \in SessionRoles, pl \in { <<1, 10>>, <<1, 2>>, <<2, 2>> } }

\* GET /api/users
GetUsers ==
  /\ \E q \in UserListQueries :
       LET handler == "GET users"
           found   == PageOf(NewestFirst(users), q.page, q.limit)
       IN  IF Unauthorized(q.session)
           THEN resp' = UsersResponse(handler, 401, q.session, <<>>, <<>>)
           ELSE resp' = UsersResponse(handler, 200, q.session,
                                      [i \in 1..Len(found) |-> WithoutPassword(found[i])],
                                      <<"connectDB", "User.find", "User.countDocuments">>)
  /\ UNCHANGED <<storeVars, tz, users, nav, ledgerCall, seen, pages>>

NextUsers ==
  \/ PostUser
  \/ GetUsers

SpecUsers == Init /\ [][NextUsers]_vars

\* ------------------------------------------------------- middleware
\* Path segments, as sequences of characters
Seg ==
  [dashboard     |-> <<"d", "a", "s", "h", "b", "o", "a", "r", "d">>,
   admin         |-> <<"a", "d", "m", "i", "n">>,
   administrator |-> <<"a", "d", "m", "i", "n", "i", "s", "t", "r", "a", "t", "o", "r">>,
   accountant    |-> <<"a", "c", "c", "o", "u", "n", "t", "a", "n", "t">>,
   customers     |-> <<"c", "u", "s", "t", "o", "m", "e", "r", "s">>,
   products      |-> <<"p", "r", "o", "d", "u", "c", "t", "s">>,
   invoices      |-> <<"i", "n", "v", "o", "i", "c", "e", "s">>,
   ledger        |-> <<"l", "e", "d", "g", "e", "r">>,
   users         |-> <<"u", "s", "e", "r", "s">>,
   payments      |-> <<"p", "a", "y", "m", "e", "n", "t", "s">>,
   api           |-> <<"a", "p", "i">>,
   auth          |-> <<"a", "u", "t", "h">>,
   signin        |-> <<"s", "i", "g", "n", "i", "n">>,
   new           |-> <<"n", "e", "w">>]

\* req.nextUrl.pathname of a path given by its segments
Pathname(segs) ==
  IF segs = <<>> THEN <<"/">>
  ELSE FlatSeq([i \in 1..Len(segs) |-> <<"/">> \o segs[i]])

\* String.prototype.startsWith
StartsWith(s, prefix) ==
  /\ Len(prefix) <= Len(s)
  /\ SubSeq(s, 1, Len(prefix)) = prefix

\* encodeURIComponent, on the characters a path and its search hold
EncodeURIComponent(s) ==
  [i \in 1..Len(s) |-> IF s[i] = "/" THEN "%2F"
                       ELSE IF s[i] = "?" THEN "%3F"
                       ELSE IF s[i] = "=" THEN "%3D"
                       ELSE s[i]]

\* What a request is answered with: the page (or route) it asked for, or a
\* redirect to the sign-in page or to the dashboard
Served == [kind |-> "next", to |-> "none", from |-> <<>>]

Redirect(to, from) == [kind |-> "redirect", to |-> to, from |-> from]

\* config.matcher: '/<root>/:path*' and '/api/<root>/:path*'
PageRoots ==
  { Seg.dashboard, Seg.admin, Seg.accountant, Seg.customers, Seg.products,
    Seg.invoices, Seg.ledger, Seg.users }

ApiRoots ==
  { Seg.customers, Seg.products, Seg.invoices, Seg.ledger, Seg.users,
    Seg.payments, Seg.dashboard }

Matches(segs) ==
  /\ Len(segs) >= 1
  /\ \/ segs[1] \in PageRoots
     \/ segs[1] = Seg.api /\ Len(segs) >= 2 /\ segs[2] \in ApiRoots

\* The middleware without its test of the /users pages
middlewareWithoutUsersRoute(pathname, search, role) ==
  LET isAuth            == role # None
      isAuthPage        == StartsWith(pathname, Pathname(<<Seg.auth>>))
      isAdminRoute      == StartsWith(pathname, Pathname(<<Seg.admin>>))
      isAccountantRoute == StartsWith(pathname, Pathname(<<Seg.accountant>>))
  IN  IF isAuthPage
      THEN IF isAuth THEN Redirect("/dashboard", <<>>) ELSE Served
      ELSE IF ~isAuth
      THEN Redirect("/auth/signin", EncodeURIComponent(pathname \o search))
      ELSE IF isAdminRoute /\ role # "admin" THEN Redirect("/dashboard", <<>>)
      ELSE IF isAccountantRoute /\ role # "accountant" THEN Redirect("/dashboard", <<>>)
      ELSE Served

\* function middleware(req): role is the role of req.nextauth.token, None
\* when there is no token
middleware(pathname, search, role) ==
  LET isAuth            == role # None
      isAuthPage        == StartsWith(pathname, Pathname(<<Seg.auth>>))
      isAdminRoute      == StartsWith(pathname, Pathname(<<Seg.admin>>))
      isAccountantRoute == StartsWith(pathname, Pathname(<<Seg.accountant>>))
      isUsersRoute      == StartsWith(pathname, Pathname(<<Seg.users>>))
  IN  IF isAuthPage
      THEN IF isAuth THEN Redirect("/dashboard", <<>>) ELSE Served
      ELSE IF ~isAuth
      THEN Redirect("/auth/signin", EncodeURIComponent(pathname \o search))
      ELSE IF isAdminRoute /\ role # "admin" THEN Redirect("/dashboard", <<>>)
      ELSE IF isAccountantRoute /\ role # "accountant" THEN Redirect("/dashboard", <<>>)
      ELSE IF isUsersRoute /\ role # "admin" THEN Redirect("/dashboard", <<>>)
      ELSE Served

\* callbacks.authorized: ({ token }) => !!token
authorized(role) == role # None

\* withAuth(middleware, { callbacks }): a request the callback refuses is
\* sent to the sign-in page with the address it asked for, the others are
\* handed to the middleware
withAuth(pathname, search, role) ==
  IF authorized(role)
  THEN middleware(pathname, search, role)
  ELSE Redirect("/auth/signin", EncodeURIComponent(pathname \o search))

\* The roles a token can carry; a token made without a role carries "undefined"
TokenRoles == {None, "admin", "accountant", "manager", "undefined"}

\* The addresses asked for: every page root, pages below some of them, the
\* API roots, and addresses the matcher leaves alone
NavPaths ==
  { <<root>> : root \in PageRoots }
    \cup { <<root, Seg.new>> : root \in {Seg.users, Seg.admin, Seg.accountant, Seg.invoices} }
    \cup { <<Seg.api, root>> : root \in ApiRoots }
    \cup { <<>>, <<Seg.auth, Seg.signin>>, <<Seg.administrator>>, <<Seg.api, Seg.auth>> }

NavSearches == { <<>>, <<"?", "p", "=", "1">> }

\* One request: the matcher decides whether the middleware runs at all
Navigate ==
  /\ \E segs \in NavPaths, search \in NavSearches, role \in TokenRoles :
       nav' = [path |-> segs, search |-> search, role |-> role,
               outcome |-> IF Matches(segs)
                           THEN withAuth(Pathname(segs), search, role)
                           ELSE Served]
  /\ UNCHANGED <<storeVars, resp, tz, users, ledgerCall, seen, pages>>

NextMiddleware == Navigate

SpecMiddleware == Init /\ [][NextMiddleware]_vars

\* ------------------------------------------------ entries of one instant
\* Invoices of two items each, all of one date but the last, which is a day
\* earlier and has one item: part paid, paid in part more, unpaid
TiesInvoiceRequests ==
  { PageRequest("u1", "c1", <<PageItem("p1", 1), PageItem("p2", 1)>>, 1, 2),
    PageRequest("u1", "c1", <<PageItem("p2", 1), PageItem("p1", 1)>>, 2, 2),
    PageRequest("u1", "c1", <<PageItem("p1", 1), PageItem("p2", 1)>>, 0, 2),
    PageRequest("u1", "c1", <<PageItem("p1", 2)>>, 0, 1) }

\* Payments of 1 on the date of the invoices, before it and after it
TiesPaymentRequests ==
  { [session |-> "u1", invoiceId |-> i, amount |-> 1, paymentDate |-> d] :
      i \in 1..MaxInvoices, d \in {1, 2, 3} }

TiesQueries ==
  { Query("c1", Absent, None, r) : r \in { <<Absent, Absent>>, << <<1>>, Absent >> } }

PostInvoiceTies == PostInvoiceOf(TiesInvoiceRequests) /\ UNCHANGED sideVars

PostPaymentTies == PostPaymentOf(TiesPaymentRequests) /\ UNCHANGED sideVars

LedgerGETTies == LedgerGETOf(TiesQueries) /\ UNCHANGED sideVars

NextTies ==
  \/ PostInvoiceTies
  \/ PostPaymentTies
  \/ LedgerGETTies

SpecTies == Init /\ [][NextTies]_vars

\* ---------------------------------------------------- invoice numbers
\* Server dates with a one-digit month and day, with two-digit ones, and in
\* a year whose last two digits begin with 0
NumberClocks ==
  { [year |-> 2025, month |-> 1, day |-> 5],
    [year |-> 2025, month |-> 12, day |-> 31],
    [year |-> 2009, month |-> 10, day |-> 9] }

\* Suffixes of one to four digits, the least and the greatest among them
NumberRandoms == {0, 7, 42, 999, 9999}

NumberInvoiceRequests ==
  { PageRequest("u1", "c1", <<PageItem("p1", 1)>>, 1, 1),
    PageRequest("u1", "c1", <<PageItem("p2", 1)>>, 0, 1) }

PostInvoiceNumbers ==
  PostInvoiceAt(NumberInvoiceRequests, NumberClocks, NumberRandoms) /\ UNCHANGED sideVars

LedgerGETNumbers == LedgerGETOf(StockQueries) /\ UNCHANGED sideVars

NextNumbers ==
  \/ PostInvoiceNumbers
  \/ LedgerGETNumbers

SpecNumbers == Init /\ [][NextNumbers]_vars

\* ------------------------------------------- invoices without items
\* Invoices that the Mongoose invoiceSchema admits (items: [invoiceItemSchema]
\* asks for no item) and that POST /api/invoices refuses: part paid, paid in
\* full, and of amount 0
EmptyItemsInvoices ==
  { [id |-> 1, customerId |-> "c1", items |-> <<>>,
     totalAmount |-> amounts[1], paidAmount |-> amounts[2], dueAmount |-> amounts[3],
     invoiceDate |-> 1,
     invoiceNumber |-> generateInvoiceNumber([year |-> 2025, month |-> 10, day |-> 8], 42),
     createdBy |-> "u1"] :
      amounts \in { <<3, 1, 2>>, <<2, 2, 0>>, <<0, 0, 0>> } }

\* The store holds one such invoice
InitEmptyItems ==
  /\ customers = SeedCustomers
  /\ products = SeedProducts
  /\ invoices \in { <<inv>> : inv \in EmptyItemsInvoices }
  /\ payments = <<>>
  /\ nextInvoiceId = 2
  /\ nextPaymentId = 1
  /\ resp = StatusResponse("none", 0)
  /\ InitSide
  /\ tz = 0

PostInvoiceEmptyItems == PostInvoiceOf(NumberInvoiceRequests) /\ UNCHANGED sideVars

PostPaymentEmptyItems == PostPaymentOf(PaymentRequests) /\ UNCHANGED sideVars

LedgerGETEmptyItems == LedgerGETOf(TiesQueries) /\ UNCHANGED sideVars

NextEmptyItems ==
  \/ PostInvoiceEmptyItems
  \/ PostPaymentEmptyItems
  \/ LedgerGETEmptyItems

SpecEmptyItems == InitEmptyItems /\ [][NextEmptyItems]_vars

\* ------------------------------------------------- payments by the API
\* Invoices paid in full at creation and not paid at all
PaidInvoiceRequests ==
  { PageRequest("u1", "c1", <<PageItem("p1", 1)>>, 1, 1),
    PageRequest("u1", "c1", <<PageItem("p2", 1)>>, 0, 1) }

PostInvoicePayments == PostInvoiceOf(PaidInvoiceRequests) /\ UNCHANGED sideVars

\* One payment more than elsewhere, so that an invoice can be paid twice
PostPaymentPayments == PostPaymentUpTo(PaymentRequests, MaxPayments + 1) /\ UNCHANGED sideVars

DeleteInvoicePayments == DeleteInvoiceOf(1..MaxInvoices) /\ UNCHANGED sideVars

NextPayments ==
  \/ PostInvoicePayments
  \/ PostPaymentPayments
  \/ DeleteInvoicePayments

SpecPayments == Init /\ [][NextPayments]_vars

\* --------------------------------------- recording a payment on the page
\* An invoice created unpaid, of total 3
RecordingInvoiceRequests ==
  { PageRequest("u1", "c1", <<PageItem("p1", 1), PageItem("p2", 1)>>, 0, 1) }

\* The amounts entered in the payment form
RecordingAmounts == {1, 2}

PostInvoiceRecording == PostInvoiceOf(RecordingInvoiceRequests) /\ UNCHANGED sideVars

\* fetchInvoice: GET /api/invoices/[id]; the page keeps the invoice it got,
\* or leaves for the invoice list
LoadPage ==
  /\ \E u \in PageUsers, id \in 1..MaxInvoices :
       /\ pages[u].phase = "closed"
       /\ IF HasId(invoices, id)
          THEN /\ resp' = StatusResponse("GET invoice", 200)
               /\ pages' = [pages EXCEPT ![u] =
                              [phase |-> "loaded", id |-> id,
                               paidAmount |-> DocById(invoices, id).paidAmount,
                               dueAmount |-> DocById(invoices, id).dueAmount,
                               amount |-> 0]]
          ELSE /\ resp' = StatusResponse("GET invoice", 404)
               /\ pages' = pages
  /\ UNCHANGED storeVars
  /\ UNCHANGED <<tz, users, nav, ledgerCall, seen>>

\* handleRecordPayment up to the answer of POST /api/payments: an amount
\* above the due amount the page shows is refused by the page; a payment
\* the API refuses ends the recording
RecordPayment ==
  /\ \E u \in PageUsers, amount \in RecordingAmounts :
       /\ pages[u].phase = "loaded"
       /\ amount <= pages[u].dueAmount
       /\ PostPaymentUpTo({[session |-> u, invoiceId |-> pages[u].id,
                            amount |-> amount, paymentDate |-> 2]}, MaxPayments + 1)
       /\ pages' = IF resp'.status = 201
                   THEN [pages EXCEPT ![u].phase = "posted", ![u].amount = amount]
                   ELSE pages
  /\ UNCHANGED <<tz, users, nav, ledgerCall, seen>>

\* handleRecordPayment from its PUT /api/invoices/[id] on: the amounts sent
\* are computed from the invoice the page holds; after a 200 the page
\* fetches the invoice again, after anything else it keeps what it had
UpdateInvoice ==
  /\ \E u \in PageUsers, failAt \in {None, "Invoice.findByIdAndUpdate"} :
       /\ pages[u].phase = "posted"
       /\ IF Rejects(failAt, "Invoice.findByIdAndUpdate")
          THEN /\ resp' = StatusResponse("PUT invoices", 500)
               /\ UNCHANGED storeVars
          ELSE PutInvoiceOf({[session |-> u, id |-> pages[u].id,
                              paidAmount |-> pages[u].paidAmount + pages[u].amount,
                              dueAmount |-> pages[u].dueAmount - pages[u].amount]})
       /\ pages' = IF resp'.status = 200
                   THEN [pages EXCEPT ![u] =
                           [phase |-> "loaded", id |-> pages[u].id,
                            paidAmount |-> DocById(invoices', pages[u].id).paidAmount,
                            dueAmount |-> DocById(invoices', pages[u].id).dueAmount,
                            amount |-> 0]]
                   ELSE [pages EXCEPT ![u].phase = "loaded", ![u].amount = 0]
  /\ UNCHANGED <<tz, users, nav, ledgerCall, seen>>

\* The user leaves the page
ClosePage ==
  /\ \E u \in PageUsers :
       /\ pages[u].phase = "loaded"
       /\ pages' = [pages EXCEPT ![u] = ClosedPage]
  /\ UNCHANGED storeVars
  /\ UNCHANGED <<resp, tz, users, nav, ledgerCall, seen>>

NextRecording ==
  \/ PostInvoiceRecording
  \/ LoadPage
  \/ RecordPayment
  \/ UpdateInvoice
  \/ ClosePage

SpecRecording == Init /\ [][NextRecording]_vars

\* ------------------------------------------- GET /api/ledger/export-csv
\* The date range of the export: new Date(fromDate) and new Date(toDate),
\* both midnight UTC
InExportRange(t, fromDate, toDate) ==
  /\ (fromDate # Absent => t >= ParseDate(fromDate[1]))
  /\ (toDate # Absent => t <= ParseDate(toDate[1]))

ExportInvoiceMatches(q, inv) ==
  /\ (q.customerId # None => inv.customerId = q.customerId)
  /\ (q.createdBy # None => inv.createdBy = q.createdBy)
  /\ InExportRange(inv.invoiceDate, q.fromDate, q.toDate)

ExportPaymentMatches(q, customerIds, invoiceIds, p) ==
  /\ (Len(customerIds) > 0 => p.invoiceId \in invoiceIds)
  /\ (q.createdBy # None => p.createdBy = q.createdBy)
  /\ InExportRange(p.paymentDate, q.fromDate, q.toDate)

\* toISOString().split('T')[0].split('-').reverse().join('-').slice(0, 8):
\* the day, the month and the first two digits of the year
FormatDDMMYY(t) == <<"DD-MM-YY", DayOf(t)>>

\* The entry as the export pushes it: the date cut to eight characters
ExportEntry(entry) == [entry EXCEPT !.date = FormatDDMMYY(entry.dateObj)]

\* ledgerEntries of the export after its two forEach loops
BuildExportEntries(fetchedInvoices, fetchedPayments, allInvoices) ==
  MapSeq(FlatSeq(MapSeq(fetchedInvoices, ItemEntries))
           \o MapSeq(fetchedPayments, LAMBDA p : PaymentEntry(p, allInvoices)),
         ExportEntry)

\* The days the cut dates can show
ExportDays == { DayOf(t) : t \in 0..3 }

\* new Date(entry.date).getTime() of a cut date: what the engine's parser
\* makes of 'DD-MM-YY' is not fixed by the language, so the export is given
\* the reading as a function of the day shown
DateReadings == [ExportDays -> 0..1]

\* The row of one entry, and the text made of the rows
CsvRow(entry) ==
  << entry.vNo, entry.date, entry.productName, entry.qty, entry.rateVt, "CASH", "",
     entry.amount, "", entry.debit, entry.credit, entry.balance >>

CsvContent(entries) ==
  << <<"V No", "Date", "Product Name", "Qty", "Rate V.T", "Policy", "PR INV",
       "Amount", "Disc Reference", "Debit", "Credit", "Balance">> >>
    \o [i \in 1..Len(entries) |->
          [k \in 1..12 |-> <<"\"", CsvRow(entries[i])[k], "\"">>]]

\* The answer of the export that is not a CSV file
ExportError(status, error, q) ==
  [handler |-> "export", status |-> status, error |-> error, q |-> q,
   invoices |-> <<>>, payments |-> <<>>, entries |-> <<>>, csv |-> <<>>]

\* The response of GET /api/ledger/export-csv for the query q
Export(q, reading) ==
  IF q.session = None
  THEN ExportError(401, "Unauthorized", q)
  ELSE IF MissingFilter(q)
  THEN ExportError(400, "Either customerId or area must be provided", q)
  ELSE
    LET byArea == q.area # Absent /\ q.customerId = None
        found == StableSort(Find(invoices, LAMBDA inv : ExportInvoiceMatches(q, inv)),
                            LAMBDA inv : inv.invoiceDate)
        matched == Find(customers, LAMBDA c : RegexMatchI(q.area, c.area))
        customerIds == IF byArea
                       THEN MapSeq(matched, LAMBDA c : ObjRef("Customer.find", c.id))
                       ELSE IF q.customerId # None THEN <<q.customerId>> ELSE <<>>
        nullCustomer == byArea /\ \E i \in 1..Len(found) :
                                     ~HasId(customers, found[i].customerId)
        fetchedInvoices ==
          IF byArea
          THEN SelectSeq(found, LAMBDA inv :
                 Includes(customerIds, ObjRef("populate", inv.customerId)))
          ELSE found
        invoiceIds == {fetchedInvoices[i].id : i \in 1..Len(fetchedInvoices)}
        fetchedPayments ==
          StableSort(Find(payments, LAMBDA pay :
                            ExportPaymentMatches(q, customerIds, invoiceIds, pay)),
                     LAMBDA pay : pay.paymentDate)
        nullInvoice == \E i \in 1..Len(fetchedPayments) :
                          ~HasId(invoices, fetchedPayments[i].invoiceId)
        entries == AttachBalances(
                     StableSort(BuildExportEntries(fetchedInvoices, fetchedPayments, invoices),
                                LAMBDA e : reading[e.date[2]]))
    IN  IF nullCustomer \/ nullInvoice
        THEN ExportError(500, "Failed to export ledger", q)
        ELSE [handler |-> "export", status |-> 200, error |-> None, q |-> q,
              invoices |-> fetchedInvoices, payments |-> fetchedPayments,
              entries |-> entries, csv |-> CsvContent(entries)]

ExportQueries ==
  { Query("c1", Absent, None, r) : r \in { <<Absent, Absent>>, << <<1>>, Absent >> } }
    \cup { Query(None, <<"p">>, None, <<Absent, Absent>>), NoQuery,
           [NoQuery EXCEPT !.session = "u1"] }

ExportGET ==
  /\ \E q \in ExportQueries, reading \in DateReadings : resp' = Export(q, reading)
  /\ UNCHANGED storeVars
  /\ UNCHANGED sideVars

PostInvoiceExport == PostInvoiceOf(DatesInvoiceRequests) /\ UNCHANGED sideVars

PostPaymentExport == PostPaymentOf(PaymentRequests) /\ UNCHANGED sideVars

NextExport ==
  \/ PostInvoiceExport
  \/ PostPaymentExport
  \/ ExportGET

SpecExport == Init /\ [][NextExport]_vars

\* ------------------------------------------------------------ properties
\* resp is the answer to a ledger request made with a session
LedgerAnswered == resp.handler = "ledger" /\ resp.q.session # None

LedgerOk == LedgerAnswered /\ resp.status = 200

StoreFetches == {"Invoice.find", "Customer.find", "Payment.find"}

Indices(s) == 1..Len(s)

C2_EmptyAreaGuard ==
  (/\ LedgerAnswered /\ resp.q.customerId = None /\ resp.q.area # Absent
   /\ \A i \in Indices(customers) : ~RegexMatchI(resp.q.area, customers[i].area))
    => /\ resp.status = 200
       /\ resp.entries = <<>>
       /\ resp.summary = ZeroSummary

\* C3: the balances are as long as the entries and each is the one before it
\* (0 before the first) plus the entry's debit minus its credit; the
\* response carries exactly these balances, in order.
C3_RunningBalance ==
  LedgerOk =>
    LET balances == calculateRunningBalance(resp.entries)
    IN  /\ Len(balances) = Len(resp.entries)
        /\ \A i \in Indices(resp.entries) :
              /\ balances[i] = (IF i = 1 THEN 0 ELSE balances[i - 1])
                               + resp.entries[i].debit - resp.entries[i].credit
              /\ resp.entries[i].balance = balances[i]

C3_Witness ==
  /\ LedgerOk /\ Len(resp.entries) >= 3
  /\ \E i \in Indices(resp.entries) : resp.entries[i].credit > 0
  /\ \E i \in Indices(resp.entries) : resp.entries[i].balance < 0

\* C4: the entries of a response are in ascending order of their original
\* date.
C4_Ordering ==
  LedgerOk =>
    \A i, j \in Indices(resp.entries) :
       i < j => resp.entries[i].dateObj <= resp.entries[j].dateObj

\* a payment entry, appended after the line items, sorted ahead of one
C4_Witness ==
  /\ LedgerOk
  /\ \E i, j \in Indices(resp.entries) :
        /\ i < j
        /\ resp.entries[i].src[1] = "payment"
        /\ resp.entries[j].src[1] = "item"
        /\ resp.entries[i].dateObj < resp.entries[j].dateObj

\* The sum of the fetched payments of an invoice
FetchedPaid(inv) ==
  SumSeq([i \in Indices(resp.payments) |->
            IF resp.payments[i].invoiceId = inv.id THEN resp.payments[i].amount ELSE 0])

SyntheticOf(inv) ==
  {i \in Indices(resp.entries) : resp.entries[i].src = <<"synthetic", inv.id, 0>>}

\* C5: every fetched invoice whose paidAmount exceeds the sum of its fetched
\* payments has exactly one reconciliation entry, a credit of the difference
\* dated on the invoice date; every other invoice has none.
C5_Reconciliation ==
  LedgerOk =>
    /\ \A k \in Indices(resp.invoices) :
         LET inv == resp.invoices[k]
         IN  IF inv.paidAmount > FetchedPaid(inv)
             THEN /\ Cardinality(SyntheticOf(inv)) = 1
                  /\ \A i \in SyntheticOf(inv) :
                        /\ resp.entries[i].credit = inv.paidAmount - FetchedPaid(inv)
                        /\ resp.entries[i].debit = 0
                        /\ resp.entries[i].dateObj = inv.invoiceDate
                        /\ resp.entries[i].date = FormatDDMMYYYY(inv.invoiceDate)
             ELSE SyntheticOf(inv) = {}
    /\ \A i \in Indices(resp.entries) :
         resp.entries[i].src[1] = "synthetic"
           => \E k \in Indices(resp.invoices) : resp.invoices[k].id = resp.entries[i].src[2]

\* one invoice reconciled in part by a payment record, one paid in full by it
C5_Witness ==
  /\ LedgerOk
  /\ \E k \in Indices(resp.invoices) :
        /\ FetchedPaid(resp.invoices[k]) > 0
        /\ resp.invoices[k].paidAmount > FetchedPaid(resp.invoices[k])
  /\ \E k \in Indices(resp.invoices) :
        /\ resp.invoices[k].paidAmount > 0
        /\ FetchedPaid(resp.invoices[k]) = 0

\* The credits of the entries that belong to an invoice: its payment entries
\* and its reconciliation entry
CreditsOf(inv) ==
  SumSeq([i \in Indices(resp.entries) |->
            LET e == resp.entries[i]
            IN  IF \/ e.src = <<"synthetic", inv.id, 0>>
                   \/ /\ e.src[1] = "payment"
                      /\ \E n \in Indices(resp.payments) :
                            /\ resp.payments[n].id = e.src[2]
                            /\ resp.payments[n].invoiceId = inv.id
                THEN e.credit ELSE 0])

\* C6: in every response the credits of each fetched invoice add up to the
\* invoice's stored paidAmount.
C6_CreditsReconcile ==
  LedgerOk =>
    \A k \in Indices(resp.invoices) :
       CreditsOf(resp.invoices[k]) = resp.invoices[k].paidAmount

SumDebit == SumSeq([i \in Indices(resp.entries) |-> resp.entries[i].debit])

SumCredit == SumSeq([i \in Indices(resp.entries) |-> resp.entries[i].credit])

LastBalance ==
  IF resp.entries = <<>> THEN 0 ELSE resp.entries[Len(resp.entries)].balance

\* totalAmount is the sum of the line amounts and the payments fetched for the
\* invoice sum to at most its paidAmount
Consistent(inv) ==
  /\ inv.totalAmount = SumSeq([j \in Indices(inv.items) |-> inv.items[j].amount])
  /\ FetchedPaid(inv) <= inv.paidAmount

\* C7: in the ledger of one customer the last balance is the sum of the
\* debits minus the sum of the credits and, when every fetched invoice is
\* consistent, it is the sum of totalAmount minus the sum of paidAmount, which
\* is summary.currentBalance.
C7_FinalBalance ==
  (LedgerOk /\ resp.q.customerId # None) =>
    /\ LastBalance = SumDebit - SumCredit
    /\ (\A k \in Indices(resp.invoices) : Consistent(resp.invoices[k]))
         => /\ LastBalance =
                 SumSeq([k \in Indices(resp.invoices) |-> resp.invoices[k].totalAmount])
                 - SumSeq([k \in Indices(resp.invoices) |-> resp.invoices[k].paidAmount])
            /\ LastBalance = resp.summary.currentBalance

\* two consistent invoices, one with a payment record and a reconciliation
C7_Witness ==
  /\ LedgerOk /\ resp.q.customerId # None
  /\ Len(resp.invoices) = 2
  /\ \A k \in Indices(resp.invoices) : Consistent(resp.invoices[k])
  /\ \E k \in Indices(resp.invoices) :
        /\ FetchedPaid(resp.invoices[k]) > 0
        /\ resp.invoices[k].paidAmount > FetchedPaid(resp.invoices[k])
  /\ LastBalance > 0

\* C8: totalCredit is the sum of the fetched invoices' totalAmount, totalPaid
\* the sum of their stored paidAmount, currentBalance the difference, and
\* totalEntries the number of entries.
C8_Summary ==
  LedgerOk =>
    /\ resp.summary.totalCredit =
         SumSeq([k \in Indices(resp.invoices) |-> resp.invoices[k].totalAmount])
    /\ resp.summary.totalPaid =
         SumSeq([k \in Indices(resp.invoices) |-> resp.invoices[k].paidAmount])
    /\ resp.summary.currentBalance = resp.summary.totalCredit - resp.summary.totalPaid
    /\ resp.summary.totalEntries = Len(resp.entries)

\* the stored paidAmount differs from both the payment records and the credits
C8_Witness ==
  /\ LedgerOk /\ Len(resp.invoices) = 2
  /\ resp.summary.totalPaid # SumSeq([i \in Indices(resp.payments) |-> resp.payments[i].amount])
  /\ resp.summary.totalPaid # SumCredit
  /\ resp.summary.totalCredit # SumDebit

IsInv1(inv) ==
  /\ inv.customerId = "c1" /\ inv.invoiceDate = Oct1
  /\ inv.totalAmount = 1000 /\ inv.paidAmount = 1000 /\ inv.dueAmount = 0
  /\ Len(inv.items) = 1 /\ inv.items[1].quantity = 10 /\ inv.items[1].rate = 100

IsInv2(inv) ==
  /\ inv.customerId = "c1" /\ inv.invoiceDate = Oct5
  /\ inv.totalAmount = 500 /\ inv.paidAmount = 200 /\ inv.dueAmount = 300
  /\ Len(inv.items) = 1 /\ inv.items[1].quantity = 5 /\ inv.items[1].rate = 100

\* The store holds Inv-1, Inv-2 and one payment of 200 against Inv-2 dated
\* 2025-10-05, and resp answers the ledger request of customer c1
ScenarioAnswered ==
  /\ LedgerOk
  /\ resp.q = [NoQuery EXCEPT !.session = "u1", !.customerId = "c1"]
  /\ Len(invoices) = 2 /\ Len(payments) = 1
  /\ \E a, b \in Indices(invoices) :
        /\ IsInv1(invoices[a]) /\ IsInv2(invoices[b])
        /\ payments[1].invoiceId = invoices[b].id
  /\ payments[1].amount = 200 /\ payments[1].paymentDate = Oct5

\* kind, debit, credit and balance of the entries, in order
EntryRows ==
  [i \in Indices(resp.entries) |->
     <<resp.entries[i].src[1], resp.entries[i].debit, resp.entries[i].credit,
       resp.entries[i].balance>>]

\* C9: for Inv-1 (1000 paid 1000), Inv-2 (500 paid 200) and one payment of
\* 200 against Inv-2 the ledger of the customer is the line of Inv-1, the
\* reconciliation credit of 1000, the line of Inv-2 and the payment of 200,
\* with balances 1000, 0, 500, 300 and summary 1500 / 1200 / 300 / 4.
C9_Scenario ==
  ScenarioAnswered =>
    /\ EntryRows = << <<"item", 1000, 0, 1000>>, <<"synthetic", 0, 1000, 0>>,
                      <<"item", 500, 0, 500>>, <<"payment", 0, 200, 300>> >>
    /\ \E a, b \in Indices(invoices) :
          /\ IsInv1(invoices[a]) /\ IsInv2(invoices[b])
          /\ resp.entries[1].vNo = invoices[a].invoiceNumber
          /\ resp.entries[2].src[2] = invoices[a].id
          /\ resp.entries[3].vNo = invoices[b].invoiceNumber
    /\ resp.summary = [totalCredit |-> 1500, totalPaid |-> 1200,
                       currentBalance |-> 300, totalEntries |-> 4]

C9_Witness == ScenarioAnswered

EntriesFrom(src) == {i \in Indices(resp.entries) : resp.entries[i].src = src}

\* C10: every line item of every fetched invoice has exactly one entry
\* (debit the line amount, credit 0, voucher the invoice number, dated on the
\* invoice date), every fetched payment has exactly one entry (debit 0,
\* credit the payment amount), there is no entry besides these and the
\* reconciliation entries, and no entry has both a debit and a credit.
C10_Entries ==
  LedgerOk =>
    /\ \A k \in Indices(resp.invoices) :
         LET inv == resp.invoices[k]
         IN  \A j \in Indices(inv.items) :
               /\ Cardinality(EntriesFrom(<<"item", inv.id, j>>)) = 1
               /\ \A i \in EntriesFrom(<<"item", inv.id, j>>) :
                     /\ resp.entries[i].debit = inv.items[j].amount
                     /\ resp.entries[i].credit = 0
                     /\ resp.entries[i].vNo = inv.invoiceNumber
                     /\ resp.entries[i].dateObj = inv.invoiceDate
                     /\ resp.entries[i].date = FormatDDMMYYYY(inv.invoiceDate)
    /\ \A n \in Indices(resp.payments) :
         /\ Cardinality(EntriesFrom(<<"payment", resp.payments[n].id, 0>>)) = 1
         /\ \A i \in EntriesFrom(<<"payment", resp.payments[n].id, 0>>) :
               /\ resp.entries[i].debit = 0
               /\ resp.entries[i].credit = resp.payments[n].amount
    /\ Len(resp.entries) =
         SumSeq([k \in Indices(resp.invoices) |-> Len(resp.invoices[k].items)])
         + Len(resp.payments)
         + Cardinality({i \in Indices(resp.entries) : resp.entries[i].src[1] = "synthetic"})
    /\ \A i \in Indices(resp.entries) :
         resp.entries[i].debit = 0 \/ resp.entries[i].credit = 0

\* an invoice of two lines whose total is not the first line's amount, and a payment
C10_Witness ==
  /\ LedgerOk /\ Len(resp.payments) >= 1
  /\ \E k \in Indices(resp.invoices) : Len(resp.invoices[k].items) = 2

\* The ids of the stored invoices that an area query should fetch: creator
\* and date as asked, and the customer's area containing the area string
AreaInvoiceIds(q) ==
  { invoices[i].id : i \in { n \in Indices(invoices) :
      /\ InvoiceMatches(q, invoices[n])
      /\ HasId(customers, invoices[n].customerId)
      /\ RegexMatchI(q.area, DocById(customers, invoices[n].customerId).area) } }

\* C11: for a query with an area and no customerId the invoices of the
\* response are exactly the stored invoices (creator and date as asked) whose
\* customer's area contains the area string, whatever the case of the letters.
C11_AreaFilter ==
  (LedgerOk /\ resp.q.customerId = None /\ resp.q.area # Absent)
    => { resp.invoices[k].id : k \in Indices(resp.invoices) } = AreaInvoiceIds(resp.q)

\* Is the calendar day of the instant t within the days asked for
InDays(t, q) ==
  /\ (q.fromDate # Absent => DayOf(t) >= q.fromDate[1])
  /\ (q.toDate # Absent => DayOf(t) <= q.toDate[1])

\* The stored invoices of the customer and creator asked for whose day is
\* within the days asked for
DayInvoiceIds(q) ==
  { invoices[i].id : i \in { n \in Indices(invoices) :
      /\ invoices[n].customerId = q.customerId
      /\ (q.createdBy # None => invoices[n].createdBy = q.createdBy)
      /\ InDays(invoices[n].invoiceDate, q) } }

\* The stored payments of these invoices whose day is within the days asked for
DayPaymentIds(q) ==
  { payments[i].id : i \in { n \in Indices(payments) :
      /\ payments[n].invoiceId \in DayInvoiceIds(q)
      /\ (q.createdBy # None => payments[n].createdBy = q.createdBy)
      /\ InDays(payments[n].paymentDate, q) } }

\* C12: in the ledger of a customer the invoices and payments dated at any
\* time of a day from fromDate to toDate are included, those of a day before
\* fromDate or after toDate are not, and every entry shows a day of the range.
C12_DateRange ==
  (LedgerOk /\ resp.q.customerId # None /\ resp.q.area = Absent)
    => /\ { resp.invoices[k].id : k \in Indices(resp.invoices) } = DayInvoiceIds(resp.q)
       /\ { resp.payments[k].id : k \in Indices(resp.payments) } = DayPaymentIds(resp.q)
       /\ \A i \in Indices(resp.entries) :
             /\ InDays(resp.entries[i].dateObj, resp.q)
             /\ resp.entries[i].date = FormatDDMMYYYY(resp.entries[i].dateObj)

\* A store call of the request answered by resp was failed
StoreFailed == \E i \in Indices(resp.calls) : resp.calls[i] = "throws"

\* C13: when a store call made for a ledger request fails (the connection,
\* the invoice, customer or payment fetch), the answer is 500 'Failed to
\* generate ledger' and carries no invoice, payment, entry or summary.
C13_StoreFailure ==
  (LedgerAnswered /\ StoreFailed)
    => /\ resp.status = 500
       /\ resp.error = "Failed to generate ledger"
       /\ resp.entries = <<>> /\ resp.summary = ZeroSummary
       /\ resp.invoices = <<>> /\ resp.payments = <<>>

\* the payment fetch fails after the invoice fetch returned invoices
C13_Witness ==
  /\ LedgerAnswered
  /\ resp.calls = <<"connectDB", "Invoice.find", "Payment.find", "throws">>
  /\ FoundInvoices(resp.q, invoices) # <<>>
  /\ Len(payments) > 0

\* The response that the ledger request in flight would give if both of its
\* fetches read the store state snap
LedgerOn(snap) ==
  LedgerFrom(ledgerCall.q, FoundInvoices(ledgerCall.q, snap[1]), customers,
             snap[2], snap[1], None)

\* C14: the invoices and the payments that a ledger response is computed from
\* are those of one single state that the store was in during the request,
\* also when invoices and payments are written between its two fetches.
C14_ConsistentSnapshot ==
  [][(ledgerCall.phase = "fetched" /\ ledgerCall'.phase = "idle" /\ resp'.status = 200)
       => \E snap \in seen :
             /\ resp'.invoices = LedgerOn(snap).invoices
             /\ resp'.payments = LedgerOn(snap).payments]_vars

\* C15: a ledger request, answered or refused, leaves the customers,
\* products, invoices and payments as they were, and a ledger request that
\* follows another with the same query gets the same answer: no request
\* leaves anything behind for the next.
C15_ReadOnly ==
  [][resp'.handler = "ledger"
       => /\ UNCHANGED <<customers, products, invoices, payments>>
          /\ (resp.handler = "ledger" /\ resp'.q = resp.q) => resp' = resp]_vars

\* a ledger with entries, on a store that creations and payments have written
C15_Witness ==
  /\ LedgerOk /\ resp.entries # <<>>
  /\ products # SeedProducts /\ Len(payments) > 0

\* The quantity of product p on the stored invoices
Sold(p) ==
  SumSeq([i \in Indices(invoices) |->
            SumSeq([j \in Indices(invoices[i].items) |->
                      IF invoices[i].items[j].productId = p
                      THEN invoices[i].items[j].quantity ELSE 0])])

\* More stock is gone than the stored invoices account for
StockWithoutInvoice == \E p \in ProductIds : SeedProducts[p] - products[p] > Sold(p)

\* A stored invoice has an item that lowered no stock
InvoiceWithoutStock ==
  \E i \in Indices(invoices) : \E j \in Indices(invoices[i].items) :
     invoices[i].items[j].productId \notin DOMAIN products

QuantityOf(inv, p) ==
  SumSeq([j \in Indices(inv.items) |->
            IF inv.items[j].productId = p THEN inv.items[j].quantity ELSE 0])

\* C18: an invoice creation answered 201 has lowered the stock of every
\* product by the sum of the quantities of the new invoice's items that name
\* it, which leaves the stock of the products it does not name as it was.
C18_StockDecrement ==
  [][(resp'.handler = "POST invoices" /\ resp'.status = 201 /\ invoices' # invoices)
       => /\ DOMAIN products' = DOMAIN products
          /\ \A p \in DOMAIN products :
                products'[p] = products[p] - QuantityOf(invoices'[Len(invoices')], p)]_vars

\* an invoice is stored that names one product in two items, of quantities 1
\* and 2, and the stock of that product is down by 3
C18_Witness ==
  /\ resp.handler = "POST invoices" /\ resp.status = 201
  /\ \E i \in Indices(invoices) :
        /\ Len(invoices[i].items) = 2
        /\ invoices[i].items[1].productId = invoices[i].items[2].productId
        /\ QuantityOf(invoices[i], invoices[i].items[1].productId) = 3
        /\ products[invoices[i].items[1].productId] = 0

\* C17: every stored invoice has totalAmount = paidAmount + dueAmount.
C17_AmountsAddUp ==
  \A i \in Indices(invoices) :
     invoices[i].totalAmount = invoices[i].paidAmount + invoices[i].dueAmount

\* C19: a request to create or list users made without a session, or with a
\* session whose role is not admin, is answered 401, leaves the user
\* collection as it was, makes no call to the store and carries no user.
C19_AdminOnly ==
  [][(resp'.handler \in {"POST users", "GET users"} /\ resp'.session # "admin")
       => /\ resp'.status = 401
          /\ users' = users
          /\ resp'.calls = <<>>
          /\ resp'.users = <<>>]_vars

\* An accountant was refused after the admin had added a user
C19_Witness ==
  /\ resp.handler \in {"POST users", "GET users"}
  /\ resp.session = "accountant"
  /\ resp.status = 401
  /\ Len(users) > Len(SeedUsers)

\* The role a protected page asks of the token: admin under /users and
\* /admin, accountant under /accountant, any role elsewhere
RolesAllowed(segs) ==
  IF segs[1] \in {Seg.users, Seg.admin} THEN {"admin"}
  ELSE IF segs[1] = Seg.accountant THEN {"accountant"}
  ELSE TokenRoles \ {None}

InvoiceOfEntry(e) ==
  IF e.src[1] = "payment"
  THEN DocById(resp.payments, e.src[2]).invoiceId
  ELSE e.src[2]

\* C21: the line items of one invoice are adjacent in the entries, and each
\* of them precedes every payment entry (recorded or reconciliation) of the
\* same invoice that has the same date.
C21_StableOrder ==
  LedgerOk =>
    \A i \in Indices(resp.entries), k \in Indices(resp.entries) :
       LET a == resp.entries[i]
           b == resp.entries[k]
       IN  /\ (i < k /\ a.src[1] = "item" /\ b.src[1] = "item" /\ a.src[2] = b.src[2])
                => \A j \in i..k : /\ resp.entries[j].src[1] = "item"
                                   /\ resp.entries[j].src[2] = a.src[2]
           /\ (a.src[1] = "item" /\ b.src[1] # "item"
                 /\ InvoiceOfEntry(b) = a.src[2] /\ b.dateObj = a.dateObj)
                => i < k

\* A ledger of two invoices of one date, two items each, with a payment
\* record and a reconciliation entry of that date for the first of them
C21_Witness ==
  /\ LedgerOk
  /\ Len(resp.invoices) = 2
  /\ resp.invoices[1].invoiceDate = resp.invoices[2].invoiceDate
  /\ \A n \in 1..2 : Len(resp.invoices[n].items) = 2
  /\ \E i \in Indices(resp.entries), k \in Indices(resp.entries) :
        /\ resp.entries[i].src[1] = "payment"
        /\ resp.entries[k].src[1] = "synthetic"
        /\ InvoiceOfEntry(resp.entries[i]) = resp.entries[k].src[2]
        /\ resp.entries[i].dateObj = resp.invoices[1].invoiceDate

\* C22: every payment entry of a ledger response belongs to an invoice of
\* the fetched invoice set, whatever the query.
C22_PaymentsOfFetchedInvoices ==
  LedgerOk =>
    \A i \in Indices(resp.entries) :
       resp.entries[i].src[1] # "item"
         => \E n \in Indices(resp.invoices) :
               resp.invoices[n].id = InvoiceOfEntry(resp.entries[i])

Digits == {"0", "1", "2", "3", "4", "5", "6", "7", "8", "9"}

\* The number two digit characters write
TwoDigitValue(str) ==
  LET v(c) == CHOOSE d \in 0..9 : DigitChar(d) = c
  IN  10 * v(str[1]) + v(str[2])

\* C23: an invoice number is '110100', then two digits of year, two of month,
\* two of day and four of random suffix; nothing keeps two creations of one
\* day from drawing the same number (the witness).
C23_NumberFormat ==
  \A i \in Indices(invoices) :
     LET number == invoices[i].invoiceNumber
     IN  /\ Len(number) = 16
         /\ SubSeq(number, 1, 6) = <<"1", "1", "0", "1", "0", "0">>
         /\ \A k \in 7..16 : number[k] \in Digits
         /\ TwoDigitValue(SubSeq(number, 9, 10)) \in 1..12
         /\ TwoDigitValue(SubSeq(number, 11, 12)) \in 1..31
         /\ \E now \in NumberClocks :
               /\ SubSeq(number, 7, 8) = SliceLast(ToDigits(now.year), 2)
               /\ TwoDigitValue(SubSeq(number, 9, 10)) = now.month
               /\ TwoDigitValue(SubSeq(number, 11, 12)) = now.day
         /\ LET random == 100 * TwoDigitValue(SubSeq(number, 13, 14))
                             + TwoDigitValue(SubSeq(number, 15, 16))
            IN  /\ random \in 0..9999
                /\ random \in NumberRandoms

\* An invoice numbered 1101002501050007 is stored, and a later creation drew
\* a number that a stored invoice already had
C23_Witness ==
  /\ \E i \in Indices(invoices) :
        invoices[i].invoiceNumber =
          <<"1", "1", "0", "1", "0", "0", "2", "5", "0", "1", "0", "5", "0", "0", "0", "7">>
  /\ resp.handler = "POST invoices"
  /\ resp.status = 500
  /\ nextInvoiceId - 1 > Len(invoices)

\* The entries of the response that belong to invoice id and satisfy kind
EntriesOfInvoice(id, kind) ==
  { i \in Indices(resp.entries) :
      resp.entries[i].src[1] = kind /\ InvoiceOfEntry(resp.entries[i]) = id }

\* C24: a fetched invoice without line items has no debit entry, its
\* totalAmount and paidAmount are counted in the summary, and it has a
\* reconciliation entry exactly when its paidAmount exceeds its fetched
\* payments, crediting the difference.
C24_EmptyInvoice ==
  LedgerOk =>
    /\ resp.summary.totalCredit
         = SumSeq([n \in Indices(resp.invoices) |-> resp.invoices[n].totalAmount])
    /\ resp.summary.totalPaid
         = SumSeq([n \in Indices(resp.invoices) |-> resp.invoices[n].paidAmount])
    /\ \A n \in Indices(resp.invoices) :
          LET inv     == resp.invoices[n]
              records == SumSeq([k \in Indices(resp.payments) |->
                                   IF resp.payments[k].invoiceId = inv.id
                                   THEN resp.payments[k].amount ELSE 0])
              synth   == EntriesOfInvoice(inv.id, "synthetic")
          IN  inv.items = <<>>
                => /\ EntriesOfInvoice(inv.id, "item") = {}
                   /\ \A i \in Indices(resp.entries) :
                         InvoiceOfEntry(resp.entries[i]) = inv.id
                           => resp.entries[i].debit = 0
                   /\ IF inv.paidAmount > records
                      THEN /\ Cardinality(synth) = 1
                           /\ \A i \in synth :
                                 resp.entries[i].credit = inv.paidAmount - records
                      ELSE synth = {}

\* A ledger of an invoice without items, total 3 and paid 1, and of an
\* invoice with an item: the summary counts the 3 that no entry debits
C24_Witness ==
  /\ LedgerOk
  /\ Len(resp.invoices) = 2
  /\ \E n \in Indices(resp.invoices) :
        /\ resp.invoices[n].items = <<>>
        /\ resp.invoices[n].totalAmount = 3
        /\ EntriesOfInvoice(resp.invoices[n].id, "synthetic") # {}
  /\ resp.summary.totalCredit
       > SumSeq([i \in Indices(resp.entries) |-> resp.entries[i].debit])

RecordedFor(id) ==
  SumSeq([k \in Indices(payments) |->
            IF payments[k].invoiceId = id THEN payments[k].amount ELSE 0])

\* C26: the payment records of an invoice never add up to more than its
\* totalAmount.
C26_PaymentsWithinTotal ==
  \A i \in Indices(invoices) : RecordedFor(invoices[i].id) <= invoices[i].totalAmount

\* No page is between its payment POST and its invoice PUT
NoRecordingInProgress == \A u \in PageUsers : pages[u].phase # "posted"

\* C27: whenever no recording is in progress, every invoice (created unpaid)
\* has a paidAmount equal to the sum of its payment records and a dueAmount
\* lowered by that sum.
C27_InvoiceInStep ==
  NoRecordingInProgress =>
    \A i \in Indices(invoices) :
       /\ invoices[i].paidAmount = RecordedFor(invoices[i].id)
       /\ invoices[i].dueAmount = invoices[i].totalAmount - RecordedFor(invoices[i].id)

\* C28: the stockQuantity of every product is at least 0.
C28_StockNotNegative == \A p \in DOMAIN products : products[p] >= 0

\* What a row says of its entry: where it comes from, debit, credit, balance
RowsOf(entries) ==
  [i \in Indices(entries) |->
     <<entries[i].src, entries[i].debit, entries[i].credit, entries[i].balance>>]

\* C29: the rows of an export are the entries that GET /api/ledger returns
\* for the same query on the same store, in the same order, with the same
\* debit, credit and running balance.
C29_ExportAgrees ==
  (resp.handler = "export" /\ resp.status = 200)
    => RowsOf(resp.entries) = RowsOf(Ledger(resp.q).entries)

\* C30: a ledger request without a session is answered 401 'Unauthorized'
\* and nothing else happens for it: no call to the store, not even the
\* connection, and no look at the filters, so that without filters the
\* answer is 401 as well.
C30_SessionFirst ==
  (resp.handler = "ledger" /\ resp.q.session = None)
    => /\ resp.status = 401
       /\ resp.error = "Unauthorized"
       /\ resp.calls = <<>>
       /\ resp.entries = <<>>

\* A request without session and without filters was answered while the
\* store held an invoice
C30_Witness ==
  /\ resp.handler = "ledger"
  /\ resp.q = NoQuery
  /\ resp.status = 401
  /\ Len(invoices) > 0

=============================================================================
